---- MODULE Spec2Model ----
(***************************************************************************)
(* EcoAgent Framework: the unit lifecycle wrapper BaseAgent.start_task and *)
(* the orchestrator AgentCoordinator.execute_task.                         *)
(*                                                                         *)
(* Spec     : one coordinator, its runs of execute_task one after another. *)
(* SpecUnit : one unit whose start_task is called directly, the calls      *)
(*            switching at the await of execute_task, taken up with a      *)
(*            short or a full task_history.                                *)
(* SpecConc : one coordinator with two runs of execute_task in flight      *)
(*            together, and get_system_status called at any moment.        *)
(* SpecFair : Spec with the event loop letting every coroutine go on and   *)
(*            every awaited execute_task come to an end.                   *)
(* SpecRegister : Spec with register_agent called between runs too, for a  *)
(*            name that has a unit.                                        *)
(* SpecRepeat : Spec with a workflow definition that names a unit twice.   *)
(*                                                                         *)
(* Python dicts are functions with a string domain, so that a missing key  *)
(* (dict.get with a default, or a KeyError on d[k]) is visible.  Costs are *)
(* counted in whole cost units.  Wall-clock values (time.time()) are the   *)
(* token "ts" / "dur", except the timestamp of a task record, which counts *)
(* the records the unit has made; None is the string "None", or NoTask for *)
(* the current task.                                                       *)
(***************************************************************************)
EXTENDS Integers, Sequences, FiniteSets, TLC

\* ---------------------------------------------------------------- bounds
\* number of execute_task calls made on the coordinator
MaxRuns == 2
\* number of workflow steps, summed over the runs of known workflow types
MaxSteps == 5
\* the cost, in cost units, of a unit that is not free
MaxCost == 1
\* number of start_task calls made on the unit that is driven on its own
MaxCalls == 3

\* ------------------------------------------------------------- constants
\* AgentCoordinator._setup_default_workflows
setup_default_workflows ==
  [ simple_task   |-> <<"analysis", "coder">>,
    web_app       |-> <<"analysis", "architect", "coder", "tester", "documenter">>,
    full_project  |-> <<"analysis", "architect", "coder", "reviewer", "tester",
                        "documenter", "git">>,
    bug_fix       |-> <<"analysis", "coder", "tester", "reviewer">>,
    refactoring   |-> <<"analysis", "architect", "coder", "reviewer", "tester">>,
    documentation |-> <<"analysis", "documenter">> ]

\* the literal list of line 103 of coordinator.py
CriticalSteps == {"analysis", "architect"}

\* the length _update_metrics cuts task_history to
HistoryLimit == 100

\* ---------------------------------------------------------------- inputs
\* workflow_type of the submitted task: a two-step, a four-step and a
\* five-step workflow of the catalog (the last with both critical steps),
\* and "does-not-exist", which is not in the catalog
TaskWorkflowTypes == {"documentation", "bug_fix", "web_app", "does-not-exist"}
\* names under which a unit is registered; the other step names of the
\* catalog never have a unit
AgentNames == {"analysis", "architect", "coder", "tester"}
\* a unit estimates or reports either nothing (analysis_agent.py:348-350
\* returns 0.0) or MaxCost
Costs == {0, MaxCost}

\* what a unit's execute_task hands back: a payload (a dict), or an exception
\* The first payload has the shape the units of the repository return
\* (analysis_agent.py:63-74): the data at the top level, no 'output' and no
\* 'cost' key.
Payloads ==
  { [success |-> TRUE, project_type |-> "web_api"],
    [success |-> TRUE, output |-> [kind |-> "api"]] }
  \cup { [success |-> TRUE, cost |-> c] : c \in Costs }
  \cup { [success |-> TRUE, cost |-> c, output |-> [kind |-> "api"]] : c \in Costs }
  \cup { [success |-> FALSE, error |-> "unit_error"] }
  \cup { [success |-> FALSE, error |-> "unit_error", cost |-> c] : c \in Costs }
  \cup { [data |-> "d"] }
ExecuteOutcomes ==
  { [raised |-> FALSE, payload |-> p] : p \in Payloads } \cup { [raised |-> TRUE] }

\* can_handle_task: True, False, or an exception
CanHandleOutcomes == {"true", "false", "raise"}
\* estimate_task_cost: a cost, or an exception
EstimateOutcomes ==
  { [raised |-> FALSE, cost |-> c] : c \in Costs } \cup { [raised |-> TRUE] }

\* the estimate drawn when estimate_task_cost is not reached
NoEstimate == [raised |-> FALSE, cost |-> 0]

\* ------------------------------------------------------------ dict helpers
\* dict.get(k, default)
Get(d, k, default) == IF k \in DOMAIN d THEN d[k] ELSE default
\* dict.update(n)
Update(d, n) ==
  [k \in DOMAIN d \cup DOMAIN n |-> IF k \in DOMAIN n THEN n[k] ELSE d[k]]

\* ------------------------------------------------------------------ state
VARIABLES
  workflow_templates,   \* AgentCoordinator.workflow_templates: name -> list of steps
  available_agents,     \* registry: name -> state of the registered BaseAgent
  total_workflows,      \* AgentCoordinator.total_workflows
  successful_workflows, \* AgentCoordinator.successful_workflows
  workflow_history,     \* AgentCoordinator.workflow_history
  pc,                   \* position of the execute_task coroutine
  workflow_type,        \* task['workflow_type'] of the run in progress
  step_idx,             \* position of the for loop in workflow_steps
  workflow_result,      \* the local dict workflow_result
  estimated_cost,       \* start_task's local estimated_cost, live across the await
  returned,             \* value handed to the caller of the last finished run
  raised_from,          \* the frame whose exception left execute_task, or "None"
  runs,                 \* number of execute_task calls so far
  registered,           \* names passed to register_agent: since the last
                        \* execute_task call, and before it
  steps_planned,        \* steps of the workflows of the runs begun so far
  step_log,             \* history: step results obtained by the run, in order
  agents_at_start,      \* history: the registry when the run began
  unit_agent,           \* a BaseAgent whose start_task is called directly
  unit_calls,           \* the start_task coroutines on unit_agent, by id
  unit_started,         \* number of start_task calls made on unit_agent
  conc_runs,            \* the execute_task coroutines in flight, by id: locals
  conc_query            \* history: the last get_system_status and its clock

\* the coordinator and the run of execute_task in progress
coordinator_vars ==
  << available_agents, total_workflows, successful_workflows,
     workflow_history, pc, workflow_type, step_idx, workflow_result,
     estimated_cost, returned, raised_from, runs, steps_planned,
     step_log, agents_at_start, registered >>

\* the unit driven on its own
unit_vars == << unit_agent, unit_calls, unit_started >>

\* the runs of execute_task that are in flight together
conc_vars == << conc_runs, conc_query >>

vars == << coordinator_vars, unit_vars, conc_vars, workflow_templates >>

\* current_task is None
NoTask == [none |-> TRUE]

\* BaseAgent.__init__; clock is the number of task records the unit has made,
\* which is what the model keeps of the readings of time.time()
NewAgent ==
  [ status |-> "idle", current_task |-> NoTask, task_history |-> << >>,
    total_tasks |-> 0, successful_tasks |-> 0, failed_tasks |-> 0,
    total_cost_euros |-> 0, clock |-> 0 ]

\* the dict literal of lines 83-91
NewWorkflowResult(wt) ==
  [ success |-> TRUE, workflow_type |-> wt, steps_completed |-> << >>,
    steps_failed |-> << >>, total_cost |-> 0, outputs |-> << >>,
    timeline |-> << >> ]

NoResult == [none |-> TRUE]

\* AgentCoordinator.__init__, no run begun
CoordinatorFresh ==
  /\ available_agents = << >>
  /\ total_workflows = 0
  /\ successful_workflows = 0
  /\ workflow_history = << >>
  /\ pc = "idle"
  /\ workflow_type = "None"
  /\ step_idx = 0
  /\ workflow_result = NoResult
  /\ estimated_cost = 0
  /\ returned = NoResult
  /\ raised_from = "None"
  /\ runs = 0
  /\ steps_planned = 0
  /\ step_log = << >>
  /\ agents_at_start = << >>
  /\ registered = [since_run |-> {}, before_run |-> {}]

\* the coordinator after __init__, with the catalog of _setup_default_workflows
CoordinatorInit ==
  /\ workflow_templates = setup_default_workflows
  /\ CoordinatorFresh

\* ids of the start_task coroutines that may be in flight on unit_agent
InvocationIds == {"a", "b"}

\* a start_task coroutine that has not been called: its position and its
\* local estimated_cost
NoCall == [pc |-> "idle", estimated_cost |-> 0, result |-> NoResult]

\* a unit just constructed, no start_task called
UnitIdle ==
  /\ unit_agent = NewAgent
  /\ unit_calls = [c \in InvocationIds |-> NoCall]
  /\ unit_started = 0

\* ids of the execute_task coroutines that may be in flight together
RunIds == {"A", "B"}

\* an execute_task coroutine that has not been called: its position and its
\* local variables
NoRun ==
  [ pc |-> "idle", workflow_type |-> "None", step_idx |-> 0,
    workflow_result |-> NoResult, task |-> NoTask, estimated_cost |-> 0,
    returned |-> NoResult, step_log |-> << >> ]

\* no get_system_status made, the clock at the construction of the units
NoQuery ==
  [last |-> "other", status |-> NoResult, clock |-> 0, again |-> FALSE]

\* no execute_task called
ConcIdle ==
  /\ conc_runs = [r \in RunIds |-> NoRun]
  /\ conc_query = NoQuery

Init ==
  /\ CoordinatorInit
  /\ UnitIdle
  /\ ConcIdle

\* ------------------------------------------------------------- BaseAgent
\* the last n elements of a list: seq[-n:], for n > 0
LastN(seq, n) ==
  IF Len(seq) <= n THEN seq ELSE SubSeq(seq, Len(seq) - n + 1, Len(seq))

\* a history that keeps its oldest records
limit_history_oldest(history) ==
  IF Len(history) > HistoryLimit THEN SubSeq(history, 1, HistoryLimit)
  ELSE history

\* _update_metrics, lines 209-210
limit_history(history) ==
  IF Len(history) > HistoryLimit THEN LastN(history, HistoryLimit) ELSE history

\* a record that names no task
task_record_unknown(agent, success, cost) ==
  [ success |-> success, duration |-> "dur", cost |-> cost,
    timestamp |-> agent.clock + 1, task_id |-> "unknown" ]

\* _update_metrics, lines 198-204: the record of an invocation
task_record(agent, success, cost) ==
  [ success |-> success, duration |-> "dur", cost |-> cost,
    timestamp |-> agent.clock + 1,
    task_id |-> IF agent.current_task = NoTask THEN "unknown"
                ELSE Get(agent.current_task, "id", "unknown") ]

\* BaseAgent._update_metrics
update_metrics(agent, success, cost) ==
  [ agent EXCEPT !.total_tasks = @ + 1,
                 !.total_cost_euros = @ + cost,
                 !.successful_tasks = IF success THEN @ + 1 ELSE @,
                 !.failed_tasks = IF success THEN @ ELSE @ + 1,
                 !.task_history =
                    limit_history(Append(@, task_record(agent, success, cost))),
                 !.clock = @ + 1 ]

\* a reset that leaves the history in place
reset_metrics_keeping_history(agent) ==
  [ agent EXCEPT !.total_tasks = 0, !.successful_tasks = 0,
                 !.failed_tasks = 0, !.total_cost_euros = 0 ]

\* BaseAgent.reset_metrics, lines 233-240; the status, the current task and
\* the clock are not reset
reset_metrics(agent) ==
  [ agent EXCEPT !.task_history = << >>, !.total_tasks = 0,
                 !.successful_tasks = 0, !.failed_tasks = 0,
                 !.total_cost_euros = 0 ]

\* start_task, lines 121-124: the unit takes the task
start_task_enter(agent, task) ==
  [ agent EXCEPT !.current_task = task, !.status = "working" ]

\* a rejection that leaves the unit WORKING
start_task_reject_working(agent, name) ==
  [ agent  |-> agent,
    result |-> [ success |-> FALSE, error |-> "cannot_handle", agent |-> name,
                 duration |-> "0.0" ] ]

\* start_task, lines 127-136: can_handle_task returned False.  The return is
\* before the try statement, so the finally clause does not run.
start_task_reject(agent, name) ==
  [ agent  |-> [agent EXCEPT !.status = "error"],
    result |-> [ success |-> FALSE, error |-> "cannot_handle", agent |-> name,
                 duration |-> "0.0" ] ]

\* a charge that is always the estimate
actual_cost_of_estimate(result, est) == est

\* the cost start_task charges for a payload (line 148)
actual_cost_of(result, est) == Get(result, "cost", est)

\* start_task, lines 144-163 and 183-185: execute_task returned a payload
start_task_success(agent, name, est, result) ==
  [ agent  |-> [ update_metrics(agent, TRUE, actual_cost_of(result, est))
                   EXCEPT !.status = "completed", !.current_task = NoTask ],
    result |-> Update(result,
                 [ agent |-> name, duration |-> "dur", estimated_cost |-> est,
                   actual_cost |-> actual_cost_of(result, est),
                   timestamp |-> "ts" ]) ]

\* an except clause that leaves the unit WORKING
start_task_except_working(agent, name, est) ==
  [ agent  |-> [ update_metrics(agent, FALSE, 0) EXCEPT !.current_task = NoTask ],
    result |-> [ success |-> FALSE, error |-> "execution_error", agent |-> name,
                 duration |-> "dur", estimated_cost |-> est, actual_cost |-> 0,
                 timestamp |-> "ts" ] ]

\* start_task, lines 165-185: execute_task raised an Exception
start_task_except(agent, name, est) ==
  [ agent  |-> [ update_metrics(agent, FALSE, 0)
                   EXCEPT !.status = "error", !.current_task = NoTask ],
    result |-> [ success |-> FALSE, error |-> "execution_error", agent |-> name,
                 duration |-> "dur", estimated_cost |-> est, actual_cost |-> 0,
                 timestamp |-> "ts" ] ]

\* start_task from the await of execute_task to its return
start_task_finish(agent, name, est, out) ==
  IF out.raised THEN start_task_except(agent, name, est)
  ELSE start_task_success(agent, name, est, out.payload)

\* max(1, n)
AtLeastOne(n) == IF n < 1 THEN 1 ELSE n

\* round((part / max(1, whole)) * 100, 1), in tenths of a percent
RatePercent(part, whole) ==
  (2000 * part + AtLeastOne(whole)) \div (2 * AtLeastOne(whole))

\* a summary that puts the unit back to IDLE
get_performance_summary_resetting(agent, name, now) ==
  [ agent  |-> [agent EXCEPT !.status = "idle"],
    result |-> [ name |-> name, status |-> agent.status,
                 total_tasks |-> agent.total_tasks,
                 successful_tasks |-> agent.successful_tasks,
                 failed_tasks |-> agent.failed_tasks,
                 success_rate_percent |->
                    RatePercent(agent.successful_tasks, agent.total_tasks),
                 total_cost_euros |-> agent.total_cost_euros,
                 average_duration_seconds |->
                    IF agent.task_history = << >> THEN "0.0" ELSE "dur",
                 uptime_minutes |-> now ] ]

\* BaseAgent.get_performance_summary, lines 212-231, read when the clock
\* shows now: the unit, which the method leaves as it is, and the summary.
\* Every recorded duration is the token "dur", and so is their mean; the
\* unit was constructed when the clock showed 0.
get_performance_summary(agent, name, now) ==
  [ agent  |-> agent,
    result |-> [ name |-> name, status |-> agent.status,
                 total_tasks |-> agent.total_tasks,
                 successful_tasks |-> agent.successful_tasks,
                 failed_tasks |-> agent.failed_tasks,
                 success_rate_percent |->
                    RatePercent(agent.successful_tasks, agent.total_tasks),
                 total_cost_euros |-> agent.total_cost_euros,
                 average_duration_seconds |->
                    IF agent.task_history = << >> THEN "0.0" ELSE "dur",
                 uptime_minutes |-> now ] ]

\* ------------------------------------------------------ AgentCoordinator
\* AgentCoordinator.get_system_status, lines 188-202, read when the clock
\* shows now: the registry after the calls of get_performance_summary, and
\* the status.  The coordinator's own start_task is never called, so its own
\* summary is that of a unit just constructed; current_workflow is never
\* assigned after __init__ has set it to None.
get_system_status(agents, total, successful, now) ==
  LET q == [n \in DOMAIN agents |-> get_performance_summary(agents[n], n, now)]
  IN [ agents |-> [n \in DOMAIN agents |-> q[n].agent],
       status |->
         [ coordinator |->
             get_performance_summary(NewAgent, "Coordinateur", now).result,
           agents |-> [n \in DOMAIN agents |-> q[n].result],
           total_workflows |-> total,
           successful_workflows |-> successful,
           success_rate |-> RatePercent(successful, total),
           available_workflow_types |-> DOMAIN workflow_templates,
           current_workflow |-> FALSE ] ]

\* a missing unit reported as a success
unavailable_result_ok(step_name) ==
  [ success |-> TRUE, error |-> "unavailable", step |-> step_name ]

\* _execute_workflow_step, lines 126-131: no unit registered under the name
unavailable_result(step_name) ==
  [ success |-> FALSE, error |-> "unavailable", step |-> step_name ]

\* the id of the task built for a step (line 137)
agent_task_id(step_name) == step_name

\* _execute_workflow_step, lines 136-143: the task built for a step; context
\* is workflow_result.  'context' and 'previous_outputs' are one and the same
\* dict, context['outputs'].
agent_task(step_name, context) ==
  [ id |-> agent_task_id(step_name), type |-> step_name,
    description |-> "description", context |-> context.outputs,
    requirements |-> "requirements", previous_outputs |-> context.outputs ]

\* a critical set that has lost 'architect'
is_critical_analysis_only(step_name) == step_name = "analysis"

\* a loop in which every failure stops the run
is_critical_always(step_name) == TRUE

\* line 103: a failed step of this name stops the run
is_critical(step_name) == step_name \in CriticalSteps

\* a successful step whose output does not replace one stored under its name
record_completed_first_wins(wr, step_name, sr) ==
  [ wr EXCEPT !.steps_completed = Append(@, step_name),
              !.outputs = IF step_name \in DOMAIN @ THEN @
                          ELSE Update(@, step_name :> Get(sr, "output", << >>)) ]

\* a successful step that is listed but whose output is not stored
record_completed_unstored(wr, step_name, sr) ==
  [ wr EXCEPT !.steps_completed = Append(@, step_name) ]

\* lines 97-98: a successful step
record_completed(wr, step_name, sr) ==
  [ wr EXCEPT !.steps_completed = Append(@, step_name),
              !.outputs = Update(@, step_name :> Get(sr, "output", << >>)) ]

\* a failed step that is listed but leaves the flag of the run alone
record_failed_unflagged(wr, step_name) ==
  [ wr EXCEPT !.steps_failed = Append(@, step_name) ]

\* a failed step that is flagged but not listed
record_failed_unlisted(wr, step_name) ==
  [ wr EXCEPT !.success = FALSE ]

\* lines 100-101: a failed step
record_failed(wr, step_name) ==
  [ wr EXCEPT !.steps_failed = Append(@, step_name), !.success = FALSE ]

\* lines 106-112: cost and timeline of a step
record_cost_timeline(wr, step_name, sr) ==
  [ wr EXCEPT !.total_cost = @ + Get(sr, "actual_cost", 0),
              !.timeline = Append(@,
                 [ step |-> step_name,
                   timestamp |-> Get(sr, "timestamp", "None"),
                   duration |-> Get(sr, "duration", "None"),
                   success |-> sr["success"] ]) ]

\* the body of the for loop, lines 96-112, for a step result that has a
\* 'success' key; brk says the loop was left by the break of line 104
loop_body(wr, step_name, sr) ==
  LET wr1 == IF sr["success"] THEN record_completed(wr, step_name, sr)
             ELSE record_failed(wr, step_name)
      brk == ~sr["success"] /\ is_critical(step_name)
  IN [ wr |-> IF brk THEN wr1 ELSE record_cost_timeline(wr1, step_name, sr),
       brk |-> brk ]

workflow_steps == workflow_templates[workflow_type]
step_name_now == workflow_steps[step_idx]

\* the keys of a step result that are not data of the unit: the flags of the
\* payload and the keys start_task (lines 128-133, 154-160, 174-182) and
\* _execute_workflow_step (lines 127-131) write
BookkeepingKeys ==
  { "success", "cost", "error", "agent", "duration", "estimated_cost",
    "actual_cost", "timestamp", "step" }

\* the output a unit produced, read off its step result: the value under
\* 'output' when the unit wraps its data so, the data at the top level of
\* the payload otherwise (analysis_agent.py:63-74, test_coder_agent.py:48-76)
ProducedOutput(sr) ==
  IF "output" \in DOMAIN sr THEN sr["output"]
  ELSE [k \in DOMAIN sr \ BookkeepingKeys |-> sr[k]]

\* what the history keeps of a step result; path is the way the result was
\* produced: "unavailable" (no unit), "rejected" (can_handle_task False),
\* "returned" (execute_task returned a payload), "raised" (execute_task raised)
LogEntry(step_name, sr, path) ==
  [ step |-> step_name, success |-> sr["success"],
    actual_cost |-> Get(sr, "actual_cost", 0),
    error |-> Get(sr, "error", "None"), path |-> path,
    output |-> Get(sr, "output", << >>),
    produced |-> ProducedOutput(sr), duration |-> Get(sr, "duration", "None") ]

\* a log of capacity one: the append evicts the entry that was there
history_append_evicting(history, wr) == << wr >>

\* line 119: workflow_history.append(workflow_result), on a plain list
history_append(history, wr) == Append(history, wr)

\* a loop that stays on its step
same_position(i) == i

\* line 93: the for loop moves to the next step of the workflow
next_position(i) == i + 1

\* a count of the runs that returned, successful or not
successful_after_any(n, wr) == n + 1

\* lines 116-117: successful_workflows once a run is over
successful_after(n, wr) == IF wr["success"] THEN n + 1 ELSE n

\* execute_task, line 96 onwards, once _execute_workflow_step has returned sr:
\* the loop body, then either the next iteration or lines 114-121
AfterStep(sr, path) ==
  IF "success" \notin DOMAIN sr
  THEN \* step_result['success'] raises KeyError, which leaves execute_task
       /\ pc' = "raised"
       /\ raised_from' = "execute_task"
       /\ returned' = NoResult
       /\ UNCHANGED << total_workflows, successful_workflows, workflow_history,
                       step_idx, workflow_result, step_log >>
  ELSE LET r == loop_body(workflow_result, step_name_now, sr) IN
       /\ workflow_result' = r.wr
       /\ step_log' = Append(step_log, LogEntry(step_name_now, sr, path))
       /\ IF r.brk \/ step_idx = Len(workflow_steps)
          THEN /\ total_workflows' = total_workflows + 1
               /\ successful_workflows' =
                    successful_after(successful_workflows, r.wr)
               /\ workflow_history' = history_append(workflow_history, r.wr)
               /\ returned' = r.wr
               /\ pc' = "returned"
               /\ UNCHANGED << step_idx, raised_from >>
          ELSE /\ step_idx' = next_position(step_idx)
               /\ pc' = "loop"
               /\ UNCHANGED << total_workflows, successful_workflows,
                               workflow_history, returned, raised_from >>

\* a result that leaves a workflow name out
unknown_workflow_result_short ==
  [ success |-> FALSE, error |-> "unknown_workflow",
    available_workflows |-> DOMAIN workflow_templates \ {"documentation"} ]

\* lines 65-69: the result for a workflow type that is not in the catalog
unknown_workflow_result ==
  [ success |-> FALSE, error |-> "unknown_workflow",
    available_workflows |-> DOMAIN workflow_templates ]

\* a registration that keeps the unit a name already has
register_agent_if_absent(agents, name) ==
  IF name \in DOMAIN agents THEN agents ELSE Update(agents, name :> NewAgent)

\* register_agent, lines 38-41: self.available_agents[agent.name] = agent
register_agent(agents, name) == Update(agents, name :> NewAgent)

\* register_agent, with a freshly constructed unit, before the first run
RegisterAgent(name) ==
  /\ pc = "idle"
  /\ runs = 0
  /\ available_agents' = register_agent(available_agents, name)
  /\ registered' = [registered EXCEPT !.since_run = @ \cup {name}]
  /\ UNCHANGED << total_workflows, successful_workflows, workflow_history, pc,
                  workflow_type, step_idx, workflow_result, estimated_cost,
                  returned, raised_from, runs, steps_planned, step_log,
                  agents_at_start >>
  /\ UNCHANGED << unit_vars, conc_vars, workflow_templates >>

\* the names registered since the last call are the ones registered before
\* the call that begins
RunBegins == [since_run |-> {}, before_run |-> registered.since_run]

\* execute_task, lines 58-69: the workflow type is not in the catalog
ExecuteTaskUnknown(wt) ==
  /\ pc \in {"idle", "returned", "raised"}
  /\ runs < MaxRuns
  /\ wt \notin DOMAIN workflow_templates
  /\ runs' = runs + 1
  /\ workflow_type' = wt
  /\ returned' = unknown_workflow_result
  /\ pc' = "returned"
  /\ raised_from' = "None"
  /\ step_log' = << >>
  /\ agents_at_start' = available_agents
  /\ registered' = RunBegins
  /\ step_idx' = 0
  /\ workflow_result' = NoResult
  /\ UNCHANGED << available_agents, total_workflows, successful_workflows,
                  workflow_history, estimated_cost, steps_planned >>
  /\ UNCHANGED << unit_vars, conc_vars, workflow_templates >>

\* execute_task, lines 58-91: a known workflow type; _estimate_workflow_cost
\* asks every registered unit of the workflow for an estimate, and one of
\* them may raise (est_raises)
ExecuteTaskBegin(wt, est_raises) ==
  /\ pc \in {"idle", "returned", "raised"}
  /\ runs < MaxRuns
  /\ wt \in DOMAIN workflow_templates
  /\ steps_planned + Len(workflow_templates[wt]) <= MaxSteps
  /\ steps_planned' = steps_planned + Len(workflow_templates[wt])
  /\ est_raises =>
       \E i \in 1 .. Len(workflow_templates[wt]) :
          workflow_templates[wt][i] \in DOMAIN available_agents
  /\ runs' = runs + 1
  /\ workflow_type' = wt
  /\ step_log' = << >>
  /\ agents_at_start' = available_agents
  /\ registered' = RunBegins
  /\ returned' = NoResult
  /\ IF est_raises
     THEN /\ pc' = "raised"
          /\ raised_from' = "_estimate_workflow_cost"
          /\ step_idx' = 0
          /\ workflow_result' = NoResult
     ELSE /\ pc' = "loop"
          /\ raised_from' = "None"
          /\ step_idx' = 1
          /\ workflow_result' = NewWorkflowResult(wt)
  /\ UNCHANGED << available_agents, total_workflows, successful_workflows,
                  workflow_history, estimated_cost >>
  /\ UNCHANGED << unit_vars, conc_vars, workflow_templates >>

\* one iteration of the for loop up to the await of the unit's execute_task:
\* _execute_workflow_step and start_task lines 121-140
StepBegin(can_handle, est) ==
  /\ pc = "loop"
  /\ IF step_name_now \notin DOMAIN available_agents
     THEN /\ can_handle = "true" /\ est = NoEstimate
          /\ AfterStep(unavailable_result(step_name_now), "unavailable")
          /\ UNCHANGED << available_agents, estimated_cost >>
     ELSE LET name == step_name_now
              agent == start_task_enter(available_agents[name],
                                        agent_task(name, workflow_result))
          IN
          CASE can_handle = "raise" ->
                 /\ est = NoEstimate
                 /\ available_agents' = [available_agents EXCEPT ![name] = agent]
                 /\ pc' = "raised"
                 /\ raised_from' = "start_task"
                 /\ returned' = NoResult
                 /\ UNCHANGED << total_workflows, successful_workflows,
                                 workflow_history, step_idx, workflow_result,
                                 step_log, estimated_cost >>
            [] can_handle = "false" ->
                 /\ est = NoEstimate
                 /\ available_agents' =
                      [available_agents EXCEPT
                         ![name] = start_task_reject(agent, name).agent]
                 /\ AfterStep(start_task_reject(agent, name).result, "rejected")
                 /\ UNCHANGED estimated_cost
            [] can_handle = "true" /\ est.raised ->
                 /\ available_agents' = [available_agents EXCEPT ![name] = agent]
                 /\ pc' = "raised"
                 /\ raised_from' = "start_task"
                 /\ returned' = NoResult
                 /\ UNCHANGED << total_workflows, successful_workflows,
                                 workflow_history, step_idx, workflow_result,
                                 step_log, estimated_cost >>
            [] can_handle = "true" /\ ~est.raised ->
                 /\ available_agents' = [available_agents EXCEPT ![name] = agent]
                 /\ estimated_cost' = est.cost
                 /\ pc' = "executing"
                 /\ UNCHANGED << total_workflows, successful_workflows,
                                 workflow_history, step_idx, workflow_result,
                                 step_log, returned, raised_from >>
  /\ UNCHANGED << workflow_type, runs, steps_planned, agents_at_start,
                  registered >>
  /\ UNCHANGED << unit_vars, conc_vars, workflow_templates >>

\* the unit's execute_task is over (out): the rest of start_task, then the
\* rest of the loop iteration
StepFinish(out) ==
  /\ pc = "executing"
  /\ LET name == step_name_now
         f == start_task_finish(available_agents[name], name, estimated_cost, out)
     IN /\ available_agents' = [available_agents EXCEPT ![name] = f.agent]
        /\ AfterStep(f.result, IF out.raised THEN "raised" ELSE "returned")
  /\ UNCHANGED << workflow_type, runs, steps_planned, agents_at_start,
                  estimated_cost, registered >>
  /\ UNCHANGED << unit_vars, conc_vars, workflow_templates >>

Next ==
  \/ \E name \in AgentNames : RegisterAgent(name)
  \/ \E wt \in TaskWorkflowTypes : ExecuteTaskUnknown(wt)
  \/ \E wt \in TaskWorkflowTypes, est_raises \in BOOLEAN :
        ExecuteTaskBegin(wt, est_raises)
  \/ \E can_handle \in CanHandleOutcomes, est \in EstimateOutcomes :
        StepBegin(can_handle, est)
  \/ \E out \in ExecuteOutcomes : StepFinish(out)

Spec == Init /\ [][Next]_vars

\* SpecFair: the runs of Spec under the scheduling of the event loop: a
\* coroutine that can go on does go on, and the execute_task of a unit that
\* has been awaited comes to an end, by a return or by an exception.  That a
\* caller makes a further call of execute_task or register_agent is not
\* required.
SpecFair ==
  /\ Spec
  /\ WF_vars(\E can_handle \in CanHandleOutcomes, est \in EstimateOutcomes :
               StepBegin(can_handle, est))
  /\ WF_vars(\E out \in ExecuteOutcomes : StepFinish(out))

\* --------------------------------------------------------------------------
\* SpecRegister: the coordinator with register_agent called between runs
\* too, for a name that already has a unit.
\* --------------------------------------------------------------------------
RegisterWorkflowTypes == {"simple_task"}
RegisterAgentNames == {"analysis", "coder"}

\* register_agent, with a freshly constructed unit, for a name that has a
\* unit, between two runs
ReplaceAgent(name) ==
  /\ pc \in {"returned", "raised"}
  /\ runs < MaxRuns
  /\ name \in DOMAIN available_agents
  /\ available_agents' = register_agent(available_agents, name)
  /\ registered' = [registered EXCEPT !.since_run = @ \cup {name}]
  /\ UNCHANGED << total_workflows, successful_workflows, workflow_history, pc,
                  workflow_type, step_idx, workflow_result, estimated_cost,
                  returned, raised_from, runs, steps_planned, step_log,
                  agents_at_start >>
  /\ UNCHANGED << unit_vars, conc_vars, workflow_templates >>

NextRegister ==
  \/ \E name \in RegisterAgentNames : RegisterAgent(name)
  \/ \E name \in RegisterAgentNames : ReplaceAgent(name)
  \/ \E wt \in RegisterWorkflowTypes, est_raises \in BOOLEAN :
        ExecuteTaskBegin(wt, est_raises)
  \/ \E can_handle \in CanHandleOutcomes, est \in EstimateOutcomes :
        StepBegin(can_handle, est)
  \/ \E out \in ExecuteOutcomes : StepFinish(out)

SpecRegister == Init /\ [][NextRegister]_vars

\* --------------------------------------------------------------------------
\* SpecRepeat: the coordinator with a workflow definition that names a unit
\* twice.  No workflow of _setup_default_workflows does; workflow_templates
\* is a plain attribute, and the definition is one its owner has put there.
\* --------------------------------------------------------------------------
RepeatWorkflowTypes == {"code_test_code"}
RepeatAgentNames == {"coder", "tester"}

repeating_workflows == "code_test_code" :> << "coder", "tester", "coder" >>

InitRepeat ==
  /\ workflow_templates = Update(setup_default_workflows, repeating_workflows)
  /\ CoordinatorFresh
  /\ UnitIdle
  /\ ConcIdle

NextRepeat ==
  \/ \E name \in RepeatAgentNames : RegisterAgent(name)
  \/ \E wt \in RepeatWorkflowTypes, est_raises \in BOOLEAN :
        ExecuteTaskBegin(wt, est_raises)
  \/ \E can_handle \in CanHandleOutcomes, est \in EstimateOutcomes :
        StepBegin(can_handle, est)
  \/ \E out \in ExecuteOutcomes : StepFinish(out)

SpecRepeat == InitRepeat /\ [][NextRepeat]_vars

TypeOK ==
  /\ pc \in {"idle", "loop", "executing", "returned", "raised"}
  /\ runs \in 0 .. MaxRuns
  /\ DOMAIN available_agents \subseteq AgentNames

\* ------------------------------------------- a unit driven on its own
\* what execute_task of the unit hands back
UnitPayloads ==
  { [success |-> TRUE, project_type |-> "web_api"],
    [success |-> TRUE, cost |-> MaxCost],
    [success |-> FALSE, error |-> "unit_error", cost |-> MaxCost] }
UnitExecuteOutcomes ==
  { [raised |-> FALSE, payload |-> p] : p \in UnitPayloads }
  \cup { [raised |-> TRUE] }

\* the task of a start_task call
UnitTask(c) == [id |-> "task_" \o c, type |-> "analysis"]

\* the unit after n calls of start_task, one after the other, each for the
\* task 'task_0', which it handles free of charge: n times lines 121-124,
\* 144-163 and 183-185
AgentAfter(n) ==
  [ NewAgent EXCEPT
      !.status = IF n = 0 THEN "idle" ELSE "completed",
      !.total_tasks = n, !.successful_tasks = n, !.clock = n,
      !.task_history =
         limit_history([ i \in 1 .. n |->
           [ success |-> TRUE, duration |-> "dur", cost |-> 0,
             timestamp |-> i, task_id |-> "task_0" ] ]) ]

\* the numbers of calls the unit has served when it is taken up: none, and
\* enough to have its history one short of the limit or at the limit
PriorCalls == {0, HistoryLimit - 1, HistoryLimit}

InitUnit ==
  /\ CoordinatorInit
  /\ \E n \in PriorCalls : unit_agent = AgentAfter(n)
  /\ unit_calls = [c \in InvocationIds |-> NoCall]
  /\ unit_started = 0
  /\ ConcIdle

\* start_task up to the await of execute_task (lines 121-144), or to the
\* return of lines 129-136, or to the exception that leaves it
UnitStartTask(c, can_handle, est) ==
  /\ unit_calls[c].pc # "executing"
  /\ unit_started < MaxCalls
  /\ unit_started' = unit_started + 1
  /\ LET agent == start_task_enter(unit_agent, UnitTask(c)) IN
     CASE can_handle = "raise" \/ (can_handle = "true" /\ est.raised) ->
            /\ can_handle = "raise" => est = NoEstimate
            /\ unit_agent' = agent
            /\ unit_calls' = [unit_calls EXCEPT ![c] =
                  [pc |-> "raised", estimated_cost |-> 0, result |-> NoResult]]
       [] can_handle = "false" ->
            /\ est = NoEstimate
            /\ unit_agent' = start_task_reject(agent, "unit").agent
            /\ unit_calls' = [unit_calls EXCEPT ![c] =
                  [pc |-> "returned", estimated_cost |-> 0,
                   result |-> start_task_reject(agent, "unit").result]]
       [] can_handle = "true" /\ ~est.raised ->
            /\ unit_agent' = agent
            /\ unit_calls' = [unit_calls EXCEPT ![c] =
                  [pc |-> "executing", estimated_cost |-> est.cost,
                   result |-> NoResult]]
  /\ UNCHANGED << coordinator_vars, conc_vars, workflow_templates >>

\* start_task from the return of execute_task to its own return (lines
\* 144-185)
UnitFinish(c, out) ==
  /\ unit_calls[c].pc = "executing"
  /\ LET f == start_task_finish(unit_agent, "unit",
                                unit_calls[c].estimated_cost, out)
     IN /\ unit_agent' = f.agent
        /\ unit_calls' = [unit_calls EXCEPT ![c] =
              [pc |-> "returned", estimated_cost |-> @.estimated_cost,
               result |-> f.result]]
  /\ UNCHANGED << coordinator_vars, unit_started, conc_vars, workflow_templates >>

\* reset_metrics, called between two steps of the start_task coroutines
UnitResetMetrics ==
  /\ unit_agent' = reset_metrics(unit_agent)
  /\ UNCHANGED << coordinator_vars, unit_calls, unit_started, conc_vars,
                  workflow_templates >>

NextUnit ==
  \/ \E c \in InvocationIds, can_handle \in CanHandleOutcomes,
          est \in EstimateOutcomes : UnitStartTask(c, can_handle, est)
  \/ \E c \in InvocationIds, out \in UnitExecuteOutcomes : UnitFinish(c, out)
  \/ UnitResetMetrics

SpecUnit == InitUnit /\ [][NextUnit]_vars

\* ------------------------------- runs of execute_task in flight together
\* workflow_type of the tasks submitted together: two workflows that share
\* their first unit, the second step of 'documentation' having no unit, and
\* a name that is not in the catalog
ConcWorkflowTypes == {"simple_task", "documentation", "does-not-exist"}

\* readings of the clock (time.time(), base_agent.py:230), in tenths of a
\* minute since the units were constructed
Times == {0, 1}

\* the units registered before the runs begin
ConcAgentNames == {"analysis", "coder"}

\* the task of run r for a step (lines 136-143); line 137 makes its id of the
\* id of the submitted task and of the step name
conc_agent_task(r, step_name, context) ==
  [ agent_task(step_name, context) EXCEPT
      !.id = "task_" \o r \o "_" \o step_name ]

\* what execute_task of a unit hands back for a task: the output says for
\* which task it was made
ConcPayloads(task) ==
  { [success |-> TRUE, cost |-> MaxCost,
     output |-> [kind |-> "api", made_for |-> task.id]],
    [success |-> TRUE, project_type |-> "web_api"],
    [success |-> FALSE, error |-> "unit_error"] }
ConcExecuteOutcomes(task) ==
  { [raised |-> FALSE, payload |-> p] : p \in ConcPayloads(task) }
  \cup { [raised |-> TRUE] }

\* a context kept in one place for all the runs: that of run 'A' once it has
\* one
first_run_context(runs_, r) ==
  IF "outputs" \in DOMAIN runs_["A"].workflow_result
  THEN runs_["A"].workflow_result
  ELSE runs_[r].workflow_result

\* lines 83 and 94: workflow_result is a local variable of the coroutine,
\* and it is the context passed to _execute_workflow_step
run_context(runs_, r) == runs_[r].workflow_result

\* execute_task of one run, line 96 onwards, once _execute_workflow_step has
\* returned sr: the run's locals after the loop body
conc_after_step(run, sr, path) ==
  IF "success" \notin DOMAIN sr
  THEN [run EXCEPT !.pc = "raised"]
  ELSE LET steps == workflow_templates[run.workflow_type]
           name == steps[run.step_idx]
           r == loop_body(run.workflow_result, name, sr)
           logged == [ run EXCEPT !.workflow_result = r.wr, !.task = NoTask,
                         !.step_log = Append(@, LogEntry(name, sr, path)) ]
       IN IF r.brk \/ run.step_idx = Len(steps)
          THEN [logged EXCEPT !.pc = "returned", !.returned = r.wr]
          ELSE [logged EXCEPT !.pc = "loop", !.step_idx = next_position(@)]

\* lines 114-121, when the run has left the loop: the counters and the
\* history of the coordinator, which the runs share
ConcFinalize(run) ==
  IF run.pc = "returned"
  THEN /\ total_workflows' = total_workflows + 1
       /\ successful_workflows' =
            successful_after(successful_workflows, run.returned)
       /\ workflow_history' = history_append(workflow_history, run.returned)
  ELSE UNCHANGED << total_workflows, successful_workflows, workflow_history >>

\* what the history keeps of a query step; again says that the query before
\* it was made after the last call or return of start_task
Queried(status, clock) ==
  [ last |-> "query", status |-> status, clock |-> clock,
    again |-> conc_query.status # NoResult ]
\* what it keeps of a step that is or holds a call or return of start_task
StartTaskStep ==
  [conc_query EXCEPT !.last = "other", !.status = NoResult, !.again = FALSE]
\* and of any other step
OtherStep == [conc_query EXCEPT !.last = "other"]

\* the coordinator with its units registered (register_agent for each name
\* of ConcAgentNames), no execute_task called
InitConc ==
  /\ workflow_templates = setup_default_workflows
  /\ available_agents = [n \in ConcAgentNames |-> NewAgent]
  /\ total_workflows = 0
  /\ successful_workflows = 0
  /\ workflow_history = << >>
  /\ pc = "idle"
  /\ workflow_type = "None"
  /\ step_idx = 0
  /\ workflow_result = NoResult
  /\ estimated_cost = 0
  /\ returned = NoResult
  /\ raised_from = "None"
  /\ runs = 0
  /\ steps_planned = 0
  /\ step_log = << >>
  /\ agents_at_start = << >>
  /\ registered = [since_run |-> ConcAgentNames, before_run |-> {}]
  /\ UnitIdle
  /\ ConcIdle

\* the variables of the single run and of the unit driven on its own
single_run_vars ==
  << pc, workflow_type, step_idx, workflow_result, estimated_cost, returned,
     raised_from, runs, steps_planned, step_log, agents_at_start, unit_vars,
     workflow_templates, registered >>

\* execute_task of run r, lines 58-91
ConcExecuteTask(r, wt) ==
  /\ conc_runs[r].pc = "idle"
  /\ conc_runs' = [conc_runs EXCEPT ![r] =
        IF wt \notin DOMAIN workflow_templates
        THEN [@ EXCEPT !.pc = "returned", !.workflow_type = wt,
                       !.returned = unknown_workflow_result]
        ELSE [@ EXCEPT !.pc = "loop", !.workflow_type = wt, !.step_idx = 1,
                       !.workflow_result = NewWorkflowResult(wt)]]
  /\ conc_query' = OtherStep
  /\ UNCHANGED << available_agents, total_workflows, successful_workflows,
                  workflow_history, single_run_vars >>

\* one iteration of the for loop of run r up to the await of the unit's
\* execute_task: _execute_workflow_step and start_task lines 121-140
ConcStepBegin(r, can_handle, est) ==
  /\ conc_runs[r].pc = "loop"
  /\ LET run == conc_runs[r]
         name == workflow_templates[run.workflow_type][run.step_idx]
     IN
     IF name \notin DOMAIN available_agents
     THEN /\ can_handle = "true" /\ est = NoEstimate
          /\ LET after == conc_after_step(run, unavailable_result(name),
                                          "unavailable")
             IN /\ conc_runs' = [conc_runs EXCEPT ![r] = after]
                /\ ConcFinalize(after)
          /\ conc_query' = OtherStep
          /\ UNCHANGED available_agents
     ELSE LET task == conc_agent_task(r, name, run_context(conc_runs, r))
              agent == start_task_enter(available_agents[name], task)
          IN
          /\ conc_query' = StartTaskStep
          /\ CASE can_handle = "raise" \/ (can_handle = "true" /\ est.raised) ->
                 /\ can_handle = "raise" => est = NoEstimate
                 /\ available_agents' = [available_agents EXCEPT ![name] = agent]
                 /\ conc_runs' = [conc_runs EXCEPT ![r] =
                       [@ EXCEPT !.pc = "raised", !.task = task]]
                 /\ UNCHANGED << total_workflows, successful_workflows,
                                 workflow_history >>
            [] can_handle = "false" ->
                 /\ est = NoEstimate
                 /\ available_agents' =
                      [available_agents EXCEPT
                         ![name] = start_task_reject(agent, name).agent]
                 /\ LET after == conc_after_step(run,
                                    start_task_reject(agent, name).result,
                                    "rejected")
                    IN /\ conc_runs' = [conc_runs EXCEPT ![r] = after]
                       /\ ConcFinalize(after)
            [] can_handle = "true" /\ ~est.raised ->
                 /\ available_agents' = [available_agents EXCEPT ![name] = agent]
                 /\ conc_runs' = [conc_runs EXCEPT ![r] =
                       [@ EXCEPT !.pc = "executing", !.task = task,
                                 !.estimated_cost = est.cost]]
                 /\ UNCHANGED << total_workflows, successful_workflows,
                                 workflow_history >>
  /\ UNCHANGED single_run_vars

\* the unit's execute_task of run r is over: the rest of start_task, then
\* the rest of the loop iteration
ConcStepFinish(r) ==
  /\ conc_runs[r].pc = "executing"
  /\ \E out \in ConcExecuteOutcomes(conc_runs[r].task) :
       LET run == conc_runs[r]
           name == workflow_templates[run.workflow_type][run.step_idx]
           f == start_task_finish(available_agents[name], name,
                                  run.estimated_cost, out)
           after == conc_after_step(run, f.result,
                                    IF out.raised THEN "raised" ELSE "returned")
       IN /\ available_agents' = [available_agents EXCEPT ![name] = f.agent]
          /\ conc_runs' = [conc_runs EXCEPT ![r] = after]
          /\ ConcFinalize(after)
  /\ conc_query' = StartTaskStep
  /\ UNCHANGED single_run_vars

\* get_system_status, called when the clock shows now; the clock does not
\* go back
ConcGetSystemStatus(now) ==
  /\ now >= conc_query.clock
  /\ LET g == get_system_status(available_agents, total_workflows,
                                successful_workflows, now)
     IN /\ available_agents' = g.agents
        /\ conc_query' = Queried(g.status, now)
  /\ UNCHANGED << total_workflows, successful_workflows, workflow_history,
                  conc_runs, single_run_vars >>

NextConc ==
  \/ \E r \in RunIds, wt \in ConcWorkflowTypes : ConcExecuteTask(r, wt)
  \/ \E r \in RunIds, can_handle \in CanHandleOutcomes,
          est \in EstimateOutcomes : ConcStepBegin(r, can_handle, est)
  \/ \E r \in RunIds : ConcStepFinish(r)
  \/ \E now \in Times : ConcGetSystemStatus(now)

SpecConc == InitConc /\ [][NextConc]_vars

\* ------------------------------------------------------- claim vocabulary
RECURSIVE SumActualCost(_)
\* the sum of the actual_cost of the step results of a log
SumActualCost(log) ==
  IF log = << >> THEN 0
  ELSE log[Len(log)].actual_cost + SumActualCost(SubSeq(log, 1, Len(log) - 1))

Range(seq) == { seq[i] : i \in 1 .. Len(seq) }

\* a value with the seven fields of the dict of lines 83-91
IsWorkflowResult(r) ==
  DOMAIN r = { "success", "workflow_type", "steps_completed", "steps_failed",
               "total_cost", "outputs", "timeline" }

\* a run of a known workflow type has handed its result to the caller
RunReturned == pc = "returned" /\ IsWorkflowResult(returned)

\* position of a step name in the workflow definition of the run
PosInWorkflow(name) ==
  CHOOSE i \in 1 .. Len(workflow_steps) : workflow_steps[i] = name

\* a list of step names follows the order of the workflow definition
InDefinitionOrder(names) ==
  \A i, j \in 1 .. Len(names) :
     i < j => PosInWorkflow(names[i]) < PosInWorkflow(names[j])

\* the step result at position i of the log is a failure of a critical step
CriticalFailureAt(i) ==
  ~step_log[i].success /\ step_log[i].step \in CriticalSteps

\* ------------------------------------------------------------------ claims
\* C1: in every returned run of a known workflow type, total_cost is the sum
\* of the actual_cost of every step attempted in the run (every step recorded
\* in steps_completed or steps_failed).
C1_TotalCostIsSumOfAttempted ==
  RunReturned => returned.total_cost = SumActualCost(step_log)

\* C2: at the end of every run, aborted or not, the timeline has one entry
\* per step recorded in steps_completed or steps_failed, and its step names,
\* in order, are the attempted steps in workflow-definition order.
C2_TimelineCoversAttempted ==
  RunReturned =>
    /\ Len(returned.timeline) =
         Len(returned.steps_completed) + Len(returned.steps_failed)
    /\ [i \in 1 .. Len(returned.timeline) |-> returned.timeline[i].step]
         = [i \in 1 .. Len(step_log) |-> workflow_steps[i]]

\* C3: the steps recorded in steps_completed and steps_failed are together
\* exactly the first k steps of the workflow definition, k being the number
\* of steps attempted; no step is in both lists, each list is in definition
\* order, and nothing is attempted or recorded after an aborting failure.
C3_RecordedStepsArePrefix ==
  IsWorkflowResult(workflow_result) =>
    LET done == workflow_result.steps_completed
        failed == workflow_result.steps_failed
        k == Len(done) + Len(failed)
    IN /\ k = Len(step_log)
       /\ k <= Len(workflow_steps)
       /\ \A i \in 1 .. k : step_log[i].step = workflow_steps[i]
       /\ Range(done) \cup Range(failed) = { workflow_steps[i] : i \in 1 .. k }
       /\ Range(done) \cap Range(failed) = {}
       /\ InDefinitionOrder(done) /\ InDefinitionOrder(failed)
       /\ \A i \in 1 .. k :
            /\ step_log[i].success <=> step_log[i].step \in Range(done)
            /\ CriticalFailureAt(i) => i = k /\ pc = "returned"

\* a run stopped by a critical failure after a step had completed
C3_Witness ==
  /\ RunReturned
  /\ Len(returned.steps_completed) >= 1
  /\ Len(step_log) < Len(workflow_steps)
  /\ CriticalFailureAt(Len(step_log))

\* the step result at position i of the log is a failure of a non-critical step
NonCriticalFailureAt(i) ==
  ~step_log[i].success /\ step_log[i].step \notin CriticalSteps

\* the units of the steps after position k are as they were when the run began
LaterUnitsUntouched(k) ==
  \A j \in k + 1 .. Len(workflow_steps) :
     workflow_steps[j] \in DOMAIN available_agents =>
        available_agents[workflow_steps[j]] = agents_at_start[workflow_steps[j]]

\* C4: when a step of the critical set fails, the run is over: no later step
\* is started, the units of the later steps keep their status and counters,
\* and the step is the last of steps_failed; when it is the first step, the
\* run returns steps_completed = [], steps_failed = [step], outputs = {}.
C4_CriticalFailureStopsRun ==
  IsWorkflowResult(workflow_result) =>
    \A i \in 1 .. Len(step_log) :
       CriticalFailureAt(i) =>
         /\ i = Len(step_log)
         /\ step_idx = i
         /\ RunReturned
         /\ LaterUnitsUntouched(i)
         /\ returned.steps_failed # << >>
         /\ returned.steps_failed[Len(returned.steps_failed)] = step_log[i].step
         /\ i = 1 => /\ returned.steps_completed = << >>
                     /\ returned.steps_failed = << step_log[1].step >>
                     /\ DOMAIN returned.outputs = {}

\* 'architect' failed in a workflow whose next step has a registered unit
C4_Witness ==
  /\ RunReturned
  /\ Len(step_log) = 2
  /\ CriticalFailureAt(2)
  /\ workflow_steps[3] \in DOMAIN available_agents

\* C5: a failed step outside the critical set does not stop the run: the next
\* step is attempted, a returned run has gone through every step of the
\* workflow (or stopped at a failed critical step), and its success flag is
\* false.
C5_NonCriticalFailureContinues ==
  IsWorkflowResult(workflow_result) =>
    \A i \in 1 .. Len(step_log) :
       NonCriticalFailureAt(i) =>
         /\ ~workflow_result.success
         /\ i < Len(workflow_steps) =>
              \/ Len(step_log) > i
              \/ step_idx = i + 1 /\ pc \in {"loop", "executing", "raised"}
         /\ pc = "returned" =>
              /\ ~returned.success
              /\ \/ Len(step_log) = Len(workflow_steps)
                 \/ CriticalFailureAt(Len(step_log))

\* a step succeeded after a non-critical step had failed
C5_Witness ==
  /\ RunReturned
  /\ \E i, j \in 1 .. Len(step_log) :
        i < j /\ NonCriticalFailureAt(i) /\ step_log[j].success

\* C6: a task whose workflow_type is not in the catalog gets a result with
\* success false that lists exactly the catalog's workflow names; no step is
\* attempted and no unit's status or counters change.
C6_UnknownWorkflowAttemptsNothing ==
  [][ (runs' = runs + 1 /\ workflow_type' \notin DOMAIN workflow_templates) =>
        /\ pc' = "returned"
        /\ returned'.success = FALSE
        /\ returned'.available_workflows = DOMAIN workflow_templates
        /\ step_log' = << >>
        /\ available_agents' = available_agents ]_vars

\* an unknown workflow type requested after a unit has worked
C6_Witness ==
  /\ pc = "returned"
  /\ workflow_type \notin DOMAIN workflow_templates
  /\ \E n \in DOMAIN available_agents : available_agents[n].total_tasks > 0

\* C7: a step with no registered unit is recorded in steps_failed with the
\* error 'unavailable', no unit is invoked or changed, and when the step is
\* not critical the run goes on to the next step.
C7_UnavailableUnitFails ==
  [][ (pc = "loop" /\ step_name_now \notin DOMAIN available_agents) =>
        /\ available_agents' = available_agents
        /\ step_log' = Append(step_log,
              [ step |-> step_name_now, success |-> FALSE, actual_cost |-> 0,
                error |-> "unavailable", path |-> "unavailable",
                output |-> << >>, produced |-> << >>, duration |-> "None" ])
        /\ workflow_result'.steps_failed =
              Append(workflow_result.steps_failed, step_name_now)
        /\ workflow_result'.steps_completed = workflow_result.steps_completed
        /\ (step_name_now \notin CriticalSteps /\ step_idx < Len(workflow_steps))
              => pc' = "loop" /\ step_idx' = step_idx + 1 ]_vars

\* a unit ran after a step with no unit had been recorded as failed
C7_Witness ==
  \E i, j \in 1 .. Len(step_log) :
     /\ i < j
     /\ step_log[i].path = "unavailable"
     /\ step_log[i].step \in Range(workflow_result.steps_failed)
     /\ step_log[j].path = "returned"

\* C8: execute_task never raises: the caller always gets a result.
C8_ExecuteTaskNeverRaises ==
  pc # "raised"

\* C9: start_task never propagates an exception, whichever of can_handle_task,
\* estimate_task_cost or execute_task fails.
C9_StartTaskNeverPropagates ==
  raised_from # "start_task"

\* C10 as stated: a unit is WORKING while its start_task runs and IDLE once
\* start_task has returned.
C10_IdleAfterStartTask ==
  /\ pc = "executing" => available_agents[step_name_now].status = "working"
  /\ \A i \in 1 .. Len(step_log) :
        step_log[i].path # "unavailable" =>
           available_agents[step_log[i].step].status = "idle"

\* the status start_task leaves behind on each of its returning paths
StatusLeftBy(path) == IF path = "returned" THEN "completed" ELSE "error"

\* C10 amended: a unit is WORKING while its start_task runs; once start_task
\* has returned its status is COMPLETED (execute_task returned a payload) or
\* ERROR (execute_task raised, or can_handle_task rejected the task), and a
\* status that has left IDLE never comes back to IDLE.
C10_StatusAfterStartTask ==
  /\ [](/\ pc = "executing" => available_agents[step_name_now].status = "working"
        /\ \A i \in 1 .. Len(step_log) :
              step_log[i].path # "unavailable" =>
                 available_agents[step_log[i].step].status
                    = StatusLeftBy(step_log[i].path))
  /\ [][ \A n \in DOMAIN available_agents :
            available_agents[n].status # "idle" =>
               available_agents'[n].status # "idle" ]_vars

\* a unit whose earlier invocation had returned is invoked again
C10_Witness ==
  /\ pc = "executing"
  /\ agents_at_start[step_name_now].status \in {"completed", "error"}
  /\ agents_at_start[step_name_now].total_tasks > 0

\* the outputs of the steps before position k of the run that succeeded
EarlierOutputs(k) ==
  LET done == { i \in 1 .. Len(step_log) : i < k /\ step_log[i].success }
  IN [ s \in { step_log[i].step : i \in done } |->
         step_log[CHOOSE i \in done : step_log[i].step = s].produced ]

\* C11: the task handed to the unit of step k carries, as context and as
\* previous_outputs, exactly the map from step name to produced output of the
\* earlier steps of the run that succeeded (no entry for a failed step), and
\* outputs[s] of the result is the output the unit of step s produced.
C11_OutputsThreadedToLaterSteps ==
  /\ pc = "executing" =>
        LET task == available_agents[step_name_now].current_task
        IN /\ task.context = EarlierOutputs(step_idx)
           /\ task.previous_outputs = EarlierOutputs(step_idx)
  /\ IsWorkflowResult(workflow_result) =>
        workflow_result.outputs = EarlierOutputs(Len(step_log) + 1)

\* the units whose WORKING status is the doing of the run in progress: the
\* run has changed them since it began, or is inside their start_task
WorkingInRun ==
  { n \in DOMAIN available_agents :
      /\ available_agents[n].status = "working"
      /\ \/ available_agents[n] # agents_at_start[n]
         \/ pc = "executing" /\ n = step_name_now }

\* C12: the steps of a run execute one after the other: a step is started
\* only when start_task of every earlier step has returned its result, at
\* most one unit of the run is WORKING at any moment, and each position of
\* the workflow is attempted at most once (the loop only moves forward, a
\* failed step is not retried).
C12_StepsStrictlySequential ==
  /\ [](/\ pc \in {"loop", "executing"} => Len(step_log) = step_idx - 1
        /\ Cardinality(WorkingInRun) <= 1
        /\ WorkingInRun # {} =>
              pc \in {"executing", "raised"} /\ WorkingInRun = {step_name_now})
  /\ [][ runs' = runs =>
           /\ step_idx' >= step_idx
           /\ (pc = "loop" /\ pc' = "executing") => step_idx' = step_idx
           /\ pc' = "loop" => step_idx' = step_idx + 1
           /\ step_log' # step_log =>
                 /\ Len(step_log') = Len(step_log) + 1
                 /\ step_log'[Len(step_log')].step = step_name_now ]_vars

\* the third unit of a run is at work, after a completed and a failed step
C12_Witness ==
  /\ pc = "executing"
  /\ step_idx = 3
  /\ step_log[1].success /\ ~step_log[2].success
  /\ step_log[2].path \in {"rejected", "raised"}
  /\ WorkingInRun = {step_name_now}

\* C14 as stated, for a capacity below the number of runs made: the length of
\* workflow_history never exceeds a fixed capacity, an append to the full log
\* evicting the oldest entry.
C14_HistoryWithinCapacity ==
  Len(workflow_history) < MaxRuns

\* C14 amended: workflow_history has no capacity.  Every run of a known
\* workflow type that returns appends its result at the end of the list and no
\* entry is ever removed or changed, so that the list holds the results of
\* all these runs, oldest first, and its length is total_workflows.
C14_HistoryGrowsWithoutEviction ==
  /\ [](Len(workflow_history) = total_workflows)
  /\ [][ \/ workflow_history' = workflow_history
         \/ /\ pc' = "returned" /\ IsWorkflowResult(returned')
            /\ workflow_history' = Append(workflow_history, returned') ]_vars

\* as many entries as runs were made, the oldest still the first
C14_Witness ==
  /\ runs = MaxRuns
  /\ Len(workflow_history) = MaxRuns
  /\ workflow_history[1] # workflow_history[Len(workflow_history)]
  /\ workflow_history[Len(workflow_history)] = returned

\* the unit of the step at position i of the log, now and when the run began
UnitOf(i) == available_agents[step_log[i].step]
UnitAtStartOf(i) == agents_at_start[step_log[i].step]

\* the step at position i of the log went through start_task
Invoked(i) == step_log[i].path # "unavailable"

\* C17: once start_task has returned, on every path (success, caught
\* execution error, task rejected by can_handle_task), the unit's
\* current_task is None.
C17_CurrentTaskClearedOnReturn ==
  \A i \in 1 .. Len(step_log) : Invoked(i) => UnitOf(i).current_task = NoTask

\* C18: every call of start_task that returns, whether it succeeds, fails
\* with a caught execution error or is rejected by can_handle_task, adds
\* exactly 1 to total_tasks and one record to task_history.
C18_EveryCallCounted ==
  \A i \in 1 .. Len(step_log) :
     Invoked(i) =>
       /\ UnitOf(i).total_tasks = UnitAtStartOf(i).total_tasks + 1
       /\ UnitOf(i).task_history =
            Append(UnitAtStartOf(i).task_history,
                   UnitOf(i).task_history[Len(UnitOf(i).task_history)])
       /\ UnitOf(i).task_history[Len(UnitOf(i).task_history)].task_id
            = agent_task_id(step_log[i].step)

\* C19: whenever the execution of a unit fails, by an exception of
\* execute_task or by a returned payload with success false, the step result
\* has success false and an actual cost of 0, nothing is added to the unit's
\* total_cost_euros, and the unit's status is ERROR.
C19_FailedExecutionCostsNothing ==
  \A i \in 1 .. Len(step_log) :
     (step_log[i].path \in {"returned", "raised"} /\ ~step_log[i].success) =>
       /\ step_log[i].actual_cost = 0
       /\ UnitOf(i).total_cost_euros = UnitAtStartOf(i).total_cost_euros
       /\ UnitOf(i).failed_tasks = UnitAtStartOf(i).failed_tasks + 1
       /\ UnitOf(i).status = "error"

\* C20: when can_handle_task returns False, start_task does not call
\* execute_task: it sets the status to ERROR and returns at once a result
\* with success false, an error message, a duration of zero and no cost (the
\* run reads a cost of 0), and the unit's total_cost_euros, like its other
\* counters, is unchanged.
C20_RejectedTaskNotExecuted ==
  [][ (Len(step_log') = Len(step_log) + 1
         /\ step_log'[Len(step_log')].path = "rejected") =>
        LET e == step_log'[Len(step_log')]
            before == available_agents[step_name_now]
            after == available_agents'[step_name_now]
        IN /\ pc = "loop" /\ pc' # "executing"
           /\ e.success = FALSE /\ e.error = "cannot_handle"
           /\ e.duration = "0.0" /\ e.actual_cost = 0
           /\ workflow_result'.total_cost = workflow_result.total_cost
           /\ after.status = "error"
           /\ after.total_cost_euros = before.total_cost_euros
           /\ after.total_tasks = before.total_tasks
           /\ after.task_history = before.task_history ]_vars

\* a unit that has charged a cost in an earlier run rejects a task
C20_Witness ==
  \E i \in 1 .. Len(step_log) :
     /\ step_log[i].path = "rejected"
     /\ UnitAtStartOf(i).total_cost_euros > 0
     /\ UnitOf(i).status = "error"

\* C15: task_history never holds more than 100 records; it holds the most
\* recent records the unit has made, at most 100 of them, oldest first, and
\* the record made when it holds 100 drops the oldest one.
C15_TaskHistoryKeepsLast100 ==
  /\ [](LET h == unit_agent.task_history IN
        /\ Len(h) <= HistoryLimit
        /\ Len(h) = IF unit_agent.total_tasks < HistoryLimit
                    THEN unit_agent.total_tasks
                    ELSE HistoryLimit
        /\ \A i \in 1 .. Len(h) :
              h[i].timestamp = unit_agent.clock - Len(h) + i)
  /\ [][ LET h == unit_agent.task_history IN
         (unit_agent'.clock # unit_agent.clock /\ Len(h) = HistoryLimit) =>
            /\ Len(unit_agent'.task_history) = HistoryLimit
            /\ SubSeq(unit_agent'.task_history, 1, HistoryLimit - 1) = Tail(h)
            /\ unit_agent'.task_history[HistoryLimit].timestamp
                 = h[HistoryLimit].timestamp + 1 ]_vars

\* the unit has made two records more than the history can hold
C15_Witness ==
  /\ unit_agent.clock = HistoryLimit + 2
  /\ Len(unit_agent.task_history) = HistoryLimit
  /\ unit_agent.task_history[1].timestamp = 3
  /\ ~unit_agent.task_history[HistoryLimit].success

\* the id of the task run r hands to the unit of a step
OwnTaskId(r, step_name) == "task_" \o r \o "_" \o step_name

\* the step names of the entries of a log that succeeded, or that failed
StepsWith(log, ok) ==
  LET Same(e) == e.success = ok
      sel == SelectSeq(log, Same)
  IN [i \in 1 .. Len(sel) |-> sel[i].step]

\* C13: when two runs of execute_task are in flight together on one
\* coordinator, switching at every await, each run has its own context map
\* and its own result: the lists, outputs, timeline and cost of a run's
\* result come from that run's steps only, and the context handed to a unit
\* is the outputs of the run that hands it.
C13_InterleavedRunsKeepOwnResults ==
  \A r \in RunIds :
     LET run == conc_runs[r]
         wr == run.workflow_result
         log == run.step_log
     IN IsWorkflowResult(wr) =>
          /\ wr.workflow_type = run.workflow_type
          /\ \A i \in 1 .. Len(log) :
                log[i].step = workflow_templates[run.workflow_type][i]
          /\ wr.steps_completed = StepsWith(log, TRUE)
          /\ wr.steps_failed = StepsWith(log, FALSE)
          /\ DOMAIN wr.outputs = Range(wr.steps_completed)
          /\ \A i \in 1 .. Len(log) :
                log[i].success =>
                   IF "made_for" \in DOMAIN log[i].produced
                   THEN /\ wr.outputs[log[i].step] = log[i].produced
                        /\ log[i].produced.made_for = OwnTaskId(r, log[i].step)
                   ELSE wr.outputs[log[i].step] = << >>
          /\ Len(wr.timeline) <= Len(log)
          /\ \A j \in 1 .. Len(wr.timeline) : wr.timeline[j].step = log[j].step
          /\ wr.total_cost = SumActualCost(SubSeq(log, 1, Len(wr.timeline)))
          /\ run.pc = "executing" =>
                /\ run.task.id = OwnTaskId(r, run.task.type)
                /\ run.task.context = wr.outputs
                /\ run.task.previous_outputs = wr.outputs
          /\ run.pc = "returned" =>
                /\ run.returned = wr
                /\ \E k \in 1 .. Len(workflow_history) : workflow_history[k] = wr

\* both runs are inside execute_task of the same unit, each with the output
\* of its own first step as context
C13_Witness ==
  /\ \A r \in RunIds :
        /\ conc_runs[r].pc = "executing"
        /\ conc_runs[r].step_idx = 2
        /\ conc_runs[r].workflow_type = "simple_task"
        /\ conc_runs[r].task.context =
              [analysis |-> [kind |-> "api",
                             made_for |-> OwnTaskId(r, "analysis")]]
  /\ available_agents["coder"].status = "working"

\* C16 as stated: a get_system_status (which calls get_performance_summary
\* of every unit) made after another one with no start_task call in between
\* yields the result of the first and changes no state.
C16_QueriesIdempotent ==
  [][ (conc_query'.last = "query" /\ conc_query'.again) =>
        /\ conc_query'.status = conc_query.status
        /\ UNCHANGED << available_agents, total_workflows,
                        successful_workflows, workflow_history, conc_runs >>
    ]_vars

\* a summary without its clock-dependent field
Timeless(summary) == [summary EXCEPT !.uptime_minutes = 0]

\* C16 amended: get_system_status and the get_performance_summary calls it
\* makes change no state of a unit or of the coordinator.  Made after another
\* one with no start_task call in between, it yields the same summaries but
\* for uptime_minutes, which follows the clock, and the same workflow
\* counters unless a run has returned in between (a run can end on a step
\* that has no unit, without any start_task); when the clock has not moved
\* and no run has returned, the result is identical.
C16_QueriesChangeNoState ==
  [][ conc_query'.last = "query" =>
        /\ UNCHANGED << available_agents, total_workflows,
                        successful_workflows, workflow_history, conc_runs >>
        /\ conc_query'.status.total_workflows = total_workflows
        /\ \A n \in DOMAIN available_agents :
              conc_query'.status.agents[n].uptime_minutes = conc_query'.clock
        /\ conc_query'.again =>
              LET old == conc_query.status
                  new == conc_query'.status
              IN /\ DOMAIN new.agents = DOMAIN old.agents
                 /\ \A n \in DOMAIN new.agents :
                       Timeless(new.agents[n]) = Timeless(old.agents[n])
                 /\ Timeless(new.coordinator) = Timeless(old.coordinator)
                 /\ new.available_workflow_types = old.available_workflow_types
                 /\ new.current_workflow = old.current_workflow
                 /\ ( /\ conc_query'.clock = conc_query.clock
                      /\ old.total_workflows = total_workflows ) => new = old
    ]_vars

\* a second query with no start_task call since the first, made later on the
\* clock, while a unit is WORKING and another has completed a task
C16_Witness ==
  /\ conc_query.last = "query"
  /\ conc_query.again
  /\ conc_query.clock > 0
  /\ \E n, m \in DOMAIN available_agents :
        /\ conc_query.status.agents[n].status = "working"
        /\ conc_query.status.agents[m].total_tasks > 0
        /\ conc_query.status.agents[m].uptime_minutes = conc_query.clock

\* the keys start_task adds to the payload (lines 154-160)
EnrichedKeys ==
  {"agent", "duration", "estimated_cost", "actual_cost", "timestamp"}

\* the start_task coroutine c returns in this step after execute_task has
\* returned a payload (the result of the except clause has no payload)
ReturnsPayload(c) ==
  /\ unit_calls[c].pc = "executing"
  /\ unit_calls'[c].pc = "returned"
  /\ Get(unit_calls'[c].result, "error", "") # "execution_error"

\* C21: when execute_task returns normally, start_task sets the status to
\* COMPLETED, takes as actual cost the cost of the payload if it has one and
\* the estimate otherwise, adds that amount to total_cost_euros, adds 1 to
\* total_tasks and to successful_tasks, leaves failed_tasks as it is, and
\* returns the payload with agent, duration, estimated_cost, actual_cost and
\* timestamp added.
C21_SuccessPathAccounting ==
  [][ \A c \in InvocationIds :
        ReturnsPayload(c) =>
          LET res == unit_calls'[c].result
              est == unit_calls[c].estimated_cost
              payload == [k \in DOMAIN res \ EnrichedKeys |-> res[k]]
          IN /\ unit_agent'.status = "completed"
             /\ payload \in UnitPayloads
             /\ EnrichedKeys \subseteq DOMAIN res
             /\ res.estimated_cost = est
             /\ res.actual_cost =
                  IF "cost" \in DOMAIN payload THEN payload.cost ELSE est
             /\ res.agent = "unit"
             /\ unit_agent'.total_cost_euros =
                  unit_agent.total_cost_euros + res.actual_cost
             /\ unit_agent'.total_tasks = unit_agent.total_tasks + 1
             /\ unit_agent'.successful_tasks = unit_agent.successful_tasks + 1
             /\ unit_agent'.failed_tasks = unit_agent.failed_tasks ]_vars

\* a call was charged its estimate, the payload naming no cost, and another
\* the cost its payload named, which was not the estimate
C21_Witness ==
  \E c, d \in InvocationIds :
     /\ unit_calls[c].pc = "returned"
     /\ "cost" \notin DOMAIN unit_calls[c].result
     /\ Get(unit_calls[c].result, "actual_cost", 0) = MaxCost
     /\ unit_calls[d].pc = "returned"
     /\ "cost" \in DOMAIN unit_calls[d].result
     /\ unit_calls[d].result.estimated_cost = 0
     /\ unit_calls[d].result.actual_cost = MaxCost
     /\ unit_agent.total_cost_euros >= 2 * MaxCost

\* C22: at every point of a run, and in the result it returns, success is
\* true exactly when steps_failed is empty, and within a run success never
\* goes back from false to true.
C22_SuccessIffNoStepFailed ==
  /\ [] /\ IsWorkflowResult(workflow_result) =>
             (workflow_result.success <=> workflow_result.steps_failed = << >>)
        /\ RunReturned =>
             (returned.success <=> returned.steps_failed = << >>)
  /\ [][ ( /\ runs' = runs
           /\ IsWorkflowResult(workflow_result)
           /\ ~ workflow_result.success )
         => ( /\ IsWorkflowResult(workflow_result')
              /\ ~ workflow_result'.success ) ]_vars

\* a run returned after a step failed and a later step succeeded
C22_Witness ==
  /\ RunReturned
  /\ ~ returned.success
  /\ returned.steps_failed # << >>
  /\ returned.steps_completed # << >>
  /\ Len(step_log) >= 2
  /\ \E i \in 1 .. Len(step_log) - 1 :
        /\ ~ step_log[i].success
        /\ step_log[i + 1].success

\* the positions before k at which the step named name succeeded
SucceededBefore(name, k) ==
  { i \in 1 .. k - 1 : step_log[i].step = name /\ step_log[i].success }

\* what outputs holds after the first k - 1 steps of the run, if every
\* successful step stores its output under its name
OutputsBefore(k) ==
  [ name \in { step_log[i].step : i \in { j \in 1 .. k - 1 : step_log[j].success } }
      |-> LET last == CHOOSE i \in SucceededBefore(name, k) :
                         \A j \in SucceededBefore(name, k) : j <= i
          IN step_log[last].output ]

\* the start_task calls the run has made on the unit named name
StartTaskCalls(name) ==
  { i \in 1 .. Len(step_log) :
      step_log[i].step = name /\ step_log[i].path # "unavailable" }

\* C23: in a run of a workflow that names a unit twice the unit is invoked
\* once per occurrence; the context of each invocation holds the outputs
\* that the successful steps before it have stored, the one of the first
\* occurrence included; the name is recorded once per occurrence in the
\* step lists and the timeline; and outputs[name] ends as the output of the
\* last occurrence that succeeded.
C23_RepeatedStepInvokedTwice ==
  ( /\ workflow_type \in RepeatWorkflowTypes
    /\ IsWorkflowResult(workflow_result) )
  =>
  /\ \A i \in 1 .. Len(step_log) : step_log[i].step = workflow_steps[i]
  /\ workflow_result.outputs = OutputsBefore(Len(step_log) + 1)
  /\ workflow_result.steps_completed = StepsWith(step_log, TRUE)
  /\ workflow_result.steps_failed = StepsWith(step_log, FALSE)
  /\ [ i \in 1 .. Len(workflow_result.timeline) |->
          workflow_result.timeline[i].step ]
       = [ i \in 1 .. Len(step_log) |-> step_log[i].step ]
  /\ pc = "executing" =>
        /\ Len(step_log) = step_idx - 1
        /\ available_agents[step_name_now].current_task.context
             = OutputsBefore(step_idx)
  /\ pc # "raised" =>
      \A name \in DOMAIN available_agents :
        available_agents[name].clock - agents_at_start[name].clock
          = Cardinality({ i \in StartTaskCalls(name) :
                            step_log[i].path \in {"returned", "raised"} })
  /\ ( pc = "returned" /\ Len(step_log) = Len(workflow_steps)
       /\ "coder" \in DOMAIN available_agents )
       => Cardinality(StartTaskCalls("coder")) = 2

\* the run is over; both occurrences and the step between them succeeded,
\* with different outputs at the two occurrences; the unit served twice
C23_Witness ==
  /\ workflow_type \in RepeatWorkflowTypes
  /\ RunReturned
  /\ returned.steps_completed = << "coder", "tester", "coder" >>
  /\ step_log[1].output # step_log[3].output
  /\ returned.outputs["coder"] = step_log[3].output
  /\ available_agents["coder"].total_tasks = 2

\* register_agent is called in this step
Registers ==
  registered'.since_run # registered.since_run \/ available_agents' # available_agents

\* a step of register_agent for name
RegistersAs(name) ==
  /\ DOMAIN available_agents' = DOMAIN available_agents \cup {name}
  /\ available_agents'[name] = NewAgent
  /\ \A other \in DOMAIN available_agents \ {name} :
        available_agents'[other] = available_agents[other]
  /\ UNCHANGED << workflow_templates, total_workflows, successful_workflows,
                  workflow_history >>

\* C24: register_agent(unit) maps the name of the unit to the unit, in place
\* of any unit the name had, and leaves the other entries of the registry
\* and the workflow catalog as they are; a run started afterwards invokes
\* the new unit under that name, and never the one it replaced.
C24_RegisterReplacesByName ==
  /\ [][ ( pc \in {"idle", "returned", "raised"} /\ runs' = runs /\ Registers )
         => \E name \in registered'.since_run : RegistersAs(name) ]_vars
  /\ [] /\ pc \in {"idle", "returned", "raised"} =>
             \A name \in registered.since_run :
                /\ name \in DOMAIN available_agents
                /\ available_agents[name] = NewAgent
        /\ \A name \in registered.before_run \ registered.since_run :
             /\ agents_at_start[name] = NewAgent
             /\ pc = "returned" =>
                  /\ available_agents[name].total_tasks
                       = Cardinality({ i \in StartTaskCalls(name) :
                                         step_log[i].path \in {"returned", "raised"} })
                  /\ Len(available_agents[name].task_history)
                       = available_agents[name].total_tasks

\* the unit named analysis served in the first run and was replaced; the
\* second run is over and the unit of that name has served once
C24_Witness ==
  /\ runs = 2
  /\ RunReturned
  /\ DOMAIN available_agents = {"analysis", "coder"}
  /\ "analysis" \in registered.before_run
  /\ "analysis" \in Range(workflow_history[1].steps_completed)
  /\ "analysis" \in Range(returned.steps_completed)
  /\ available_agents["analysis"].total_tasks = 1
  /\ available_agents["coder"].total_tasks = 2

\* C25: after any sequence of start_task calls, one after the other or
\* interleaved at their awaits, and of reset_metrics calls, total_tasks is
\* successful_tasks + failed_tasks and task_history has
\* min(total_tasks, 100) records.
C25_CountersAndHistoryAgree ==
  /\ unit_agent.total_tasks
       = unit_agent.successful_tasks + unit_agent.failed_tasks
  /\ Len(unit_agent.task_history)
       = IF unit_agent.total_tasks < HistoryLimit THEN unit_agent.total_tasks
         ELSE HistoryLimit

\* the unit had a full history, overflowed it, was reset while a call was
\* awaiting execute_task, and has recorded the failure of that call since
C25_Witness ==
  /\ unit_agent.clock = HistoryLimit + 2
  /\ unit_agent.total_tasks = 1
  /\ unit_agent.failed_tasks = 1
  /\ Len(unit_agent.task_history) = 1
  /\ \E c \in InvocationIds : unit_calls[c].pc = "executing"

\* the outputs dict with the key k left out
Without(outputs, k) == [ x \in DOMAIN outputs \ {k} |-> outputs[x] ]

\* C26: at every point of a run, and in the result it returns, the keys of
\* outputs are the step names in steps_completed; a step that succeeds adds
\* or overwrites its own key and no other, and a step that fails leaves
\* outputs as it is.
C26_OutputsKeyedByCompletedSteps ==
  /\ [] /\ IsWorkflowResult(workflow_result) =>
             DOMAIN workflow_result.outputs
               = Range(workflow_result.steps_completed)
        /\ RunReturned =>
             DOMAIN returned.outputs = Range(returned.steps_completed)
  /\ [][ ( /\ IsWorkflowResult(workflow_result)
           /\ Len(step_log') = Len(step_log) + 1 )
         => LET e == step_log'[Len(step_log')]
                before == workflow_result.outputs
                after == workflow_result'.outputs
            IN IF e.success
               THEN /\ e.step \in DOMAIN after
                    /\ after[e.step] = e.output
                    /\ Without(after, e.step) = Without(before, e.step)
               ELSE after = before ]_vars

\* a run has returned with a stored output, after a step that failed once
\* that output was stored
C26_Witness ==
  /\ RunReturned
  /\ Len(step_log) >= 2
  /\ step_log[1].success
  /\ step_log[1].output # << >>
  /\ ~ step_log[2].success
  /\ returned.outputs[step_log[1].step] = step_log[1].output
  /\ step_log[2].step \notin DOMAIN returned.outputs

\* a run of a known workflow type returns in this step
KnownRunReturns == pc \in {"loop", "executing"} /\ pc' = "returned"

\* execute_task is called in this step with a workflow type that is not in
\* the catalog
UnknownRunReturns ==
  runs' = runs + 1 /\ workflow_type' \notin DOMAIN workflow_templates

\* C27: total_workflows counts the runs of a known workflow type that have
\* returned and successful_workflows those of them whose result has success
\* true, so that successful_workflows <= total_workflows; a call with an
\* unknown workflow type changes neither counter nor workflow_history.
C27_WorkflowCountersCountReturnedRuns ==
  /\ [][ /\ total_workflows'
             = total_workflows + IF KnownRunReturns THEN 1 ELSE 0
         /\ successful_workflows'
             = successful_workflows
               + IF KnownRunReturns /\ returned'.success THEN 1 ELSE 0
         /\ UnknownRunReturns =>
              /\ pc' = "returned"
              /\ UNCHANGED << total_workflows, successful_workflows,
                              workflow_history >> ]_vars
  /\ [](0 <= successful_workflows /\ successful_workflows <= total_workflows)

\* a run of a known type returned without success, and after it a call with
\* an unknown type
C27_Witness ==
  /\ runs = 2
  /\ pc = "returned"
  /\ workflow_type \notin DOMAIN workflow_templates
  /\ total_workflows = 1
  /\ successful_workflows = 0
  /\ Len(workflow_history) = 1

\* what the run in progress has added to a counter of the unit named name
AddedInRun(name, counter) ==
  available_agents[name][counter] - agents_at_start[name][counter]

\* C28: the counters of a registered unit agree with the lists of the run:
\* a step in steps_completed has added 1 to the successful_tasks of its unit
\* and nothing to its failed_tasks, and a step in steps_failed has added 1
\* to the failed_tasks of its unit and nothing to its successful_tasks.
C28_UnitCountersMatchStepLists ==
  IsWorkflowResult(workflow_result) =>
    /\ \A name \in Range(workflow_result.steps_completed) :
          name \in DOMAIN agents_at_start =>
            /\ AddedInRun(name, "successful_tasks") = 1
            /\ AddedInRun(name, "failed_tasks") = 0
    /\ \A name \in Range(workflow_result.steps_failed) :
          name \in DOMAIN agents_at_start =>
            /\ AddedInRun(name, "failed_tasks") = 1
            /\ AddedInRun(name, "successful_tasks") = 0

\* C29: if the execute_task of every unit that is invoked comes to an end,
\* every run of a known workflow type returns, after at most as many steps
\* as the workflow has, with its result as the one entry it has added to
\* workflow_history.
C29_EveryKnownRunReturns ==
  \A k \in 1 .. MaxRuns :
     (runs = k /\ pc = "loop")
       ~> ( /\ runs = k
            /\ RunReturned
            /\ Len(step_log) <= Len(workflow_steps)
            /\ Len(workflow_history) = total_workflows
            /\ workflow_history[Len(workflow_history)] = returned )

\* the start_task coroutines that are awaiting execute_task
InProgress == { c \in InvocationIds : unit_calls[c].pc = "executing" }

\* the start_task coroutine c makes its record and returns in this step
MakesRecord(c) ==
  unit_calls[c].pc = "executing" /\ unit_calls'[c].pc = "returned"

\* the record made in this step
NewRecord == unit_agent'.task_history[Len(unit_agent'.task_history)]

\* C30 as stated: when two start_task calls on one unit overlap at the
\* await, every record carries the id of the task of the call that made it,
\* and while a call is in progress current_task is the task of a call in
\* progress.
C30_InterleavedCallsKeepOwnTask ==
  /\ [][ \A c \in InvocationIds :
           MakesRecord(c) => NewRecord.task_id = UnitTask(c).id ]_vars
  /\ [](InProgress # {} =>
          unit_agent.current_task \in { UnitTask(c) : c \in InProgress })

\* C30, amended: current_task is the task of the start_task call that was
\* the last to begin, until a call that reached execute_task returns, which
\* sets it to None whatever other call is in progress; a record carries the
\* id of current_task as it is when the call that makes the record resumes,
\* and 'unknown' when that is None; nothing else changes current_task.  So
\* the record names the task of its own call when no other call has begun
\* or ended during its await.
C30_RecordNamesCurrentTask ==
  [][ /\ unit_started' # unit_started =>
           \E c \in InvocationIds :
              /\ unit_calls[c].pc # "executing"
              /\ \A d \in InvocationIds \ {c} : unit_calls'[d] = unit_calls[d]
              /\ unit_agent'.current_task = UnitTask(c)
      /\ \A c \in InvocationIds :
           MakesRecord(c) =>
             /\ NewRecord.task_id =
                  IF unit_agent.current_task = NoTask THEN "unknown"
                  ELSE unit_agent.current_task.id
             /\ unit_agent'.current_task = NoTask
      /\ ( unit_started' = unit_started /\ \A c \in InvocationIds : ~MakesRecord(c) )
           => unit_agent'.current_task = unit_agent.current_task ]_vars

\* two calls overlapped: the one that began first has returned, its record
\* names the task of the other, and the other is still in progress with
\* current_task None
C30_Witness ==
  \E c, d \in InvocationIds :
     /\ c # d
     /\ unit_started = 2
     /\ unit_calls[c].pc = "returned"
     /\ unit_calls[d].pc = "executing"
     /\ unit_agent.current_task = NoTask
     /\ unit_agent.task_history # << >>
     /\ unit_agent.task_history[Len(unit_agent.task_history)].task_id
          = UnitTask(d).id

====
